---- MODULE Spec2Model ----
(***************************************************************************)
(* Print job pipeline of mcp31-print-server.                               *)
(*                                                                         *)
(* Three programs of the repository are modelled.  A behaviour is a run of *)
(* one of them, chosen by `service`:                                       *)
(*   "admin"    AdminWebService/admin_server.py: HTTP handler threads      *)
(*              (Flask, threaded=True), the job table, job_queue and the   *)
(*              single job_worker thread;                                  *)
(*   "receiver" WebService/server/server.py: the TCP client handlers,      *)
(*              print_queue and the single _printer_worker thread;         *)
(*   "driver"   MCP31PRINT/printer_driver.py used as a library: any        *)
(*              sequence of public PrinterDriver operations.               *)
(* Every database call, queue call and driver operation is one atomic      *)
(* step; a handler or worker is a sequence of such steps.                  *)
(***************************************************************************)
EXTENDS Integers, Sequences, FiniteSets

VARIABLES
    service,        \* which program this behaviour runs
    \* ---- admin service ----
    jobs,           \* the jobs table: job id -> row (status "NONE": no row)
    job_queue,      \* queue.Queue(): sequence of entries
    files,          \* names present in UPLOAD_FOLDER
    hpc, hjob,      \* HTTP handler threads: position and job id at hand
    wpc, wcur,      \* job_worker: position, entry dequeued
    wimg,           \* job_worker: the image object opened for the job
    wsent,          \* ghost: bytes of the current job went to the device
    wraster,        \* ghost: the current job's raster command went out
    wfailed,        \* ghost: a command of the current job failed
    enqLog,         \* ghost: every entry put on job_queue, in order
    deqLog,         \* ghost: every entry got from job_queue, in order
    procLog,        \* ghost: positions in deqLog the worker set PROCESSING
    skipped,        \* ghost: positions in deqLog the worker skipped
    cancelledIdx,   \* ghost: positions in enqLog not yet dequeued when a
                    \*        cancel of their job completed
    \* ---- file receiver service ----
    print_queue,    \* queue.Queue(): sequence of job tuples
    rpc, rcur,      \* _printer_worker: position, job tuple dequeued
    rEnqLog,        \* ghost: every job tuple put on print_queue, in order
    rDeqLog,        \* ghost: every job tuple got from print_queue, in order
    \* ---- the driver (of the receiver's worker, or used as a library) ----
    drv,            \* the PrinterDriver object
    \* ---- WebService/common/network_utils.py: one envelope ----
    epc,            \* "ready", "serialized", "done" ("off": not this run)
    env_in,         \* the arguments of serialize_data
    env_wire,       \* the JSON document
    env_out,        \* what deserialize_data returned
    \* ---- WebService/server/server.py: one client connection ----
    fpc,            \* _handle_client: "recv", "parse", "done" ("off")
    payload,        \* the bytes of the envelope the client serialized
    marked,         \* the client sends the marker after the envelope
    stream,         \* bytes the client sent that were not received yet
    data_buffer,    \* _handle_client: data_buffer
    parsed,         \* the bytes handed to deserialize_data
    \* ---- printer_driver.py: the image pipeline of one print_image ----
    ppc,            \* "resize", "pad", "align", "encode", "done", "failed"
    in_size,        \* img.size of the image given
    paper_width_dots,
    alignment,
    size,           \* width, height as the pipeline goes
    unpadded_width, \* ghost: width when the padding stage is entered
    added,          \* ghost: columns added left and right, and their bits
    full_command,   \* the raster command handed to _raw, if any
    reported,       \* how print_image ended for its caller
    \* ---- admin service: the printers table and its handlers ----
    printers,       \* rows of the printers table, in insertion order
    apc,            \* handler -> "idle", or "insert" inside add_printer
    aarg,           \* handler -> name and ip_address of its add_printer
    aret            \* handler -> status code of its last response

adminVars == <<jobs, job_queue, files, hpc, hjob, wpc, wcur, wimg, wsent,
               wraster, wfailed, enqLog, deqLog, procLog, skipped,
               cancelledIdx>>
recvVars == <<print_queue, rpc, rcur, rEnqLog, rDeqLog>>
envVars == <<epc, env_in, env_wire, env_out>>
frameVars == <<fpc, payload, marked, stream, data_buffer, parsed>>
pipeVars == <<ppc, in_size, paper_width_dots, alignment, size, unpadded_width,
              added, full_command, reported>>
regVars == <<printers, apc, aarg, aret>>
pureVars == <<envVars, frameVars, pipeVars, regVars>>
vars == <<service, adminVars, recvVars, drv, pureVars>>

----------------------------------------------------------------------------
(* Bounds *)
MaxJobs == 2        \* job ids that uuid4 hands out in one behaviour
MaxEnq == 3         \* puts on job_queue in one behaviour
NumHandlers == 2    \* concurrent HTTP handler threads
MaxRecv == 3        \* puts on print_queue in one behaviour
MaxLeaks == 2       \* sockets left open before the library user stops

(* Inputs.  "" is an absent or empty request field. *)
Files == {"a.png"}
Ips == {"192.168.1.50"}

JobIds == 1..MaxJobs
Handlers == 1..NumHandlers

NoRow == [status |-> "NONE", file_name |-> "", printer_ip |-> ""]
NoEntry == [job_id |-> 0, file_path |-> "", printer_ip |-> ""]

----------------------------------------------------------------------------
(* MCP31PRINT/printer_driver.py                                            *)
(* A driver object: its handle `printer`, the sockets it opened and has    *)
(* not closed, the events of the operation in progress on the wire, and    *)
(* whether a step of that operation failed.                                *)

PrinterDriver == [printer |-> "None", open |-> 0, wire |-> <<>>,
                  failed |-> FALSE]

\* Outcomes of Network(ip, port) followed by the initialization opcode.
\* "init_lost": the opcode cannot be sent; the handle is dropped and the
\* socket is left to the runtime.  "init_finalized": the same, and the
\* runtime's finalizer closes the dropped socket before the return.
ConnFaults == {"ok", "refused", "init_lost", "init_finalized"}

_connect(d, cf) ==
    IF d.printer # "None" THEN [d |-> d, ok |-> TRUE]
    ELSE IF cf = "ok"
         THEN [d |-> [d EXCEPT !.printer = "Network", !.open = @ + 1,
                               !.wire = @ \o <<"open", "init">>],
               ok |-> TRUE]
    ELSE IF cf = "refused"
         THEN [d |-> [d EXCEPT !.failed = TRUE], ok |-> FALSE]
    ELSE IF cf = "init_lost"
         THEN [d |-> [d EXCEPT !.open = @ + 1, !.wire = @ \o <<"open">>,
                               !.failed = TRUE],
               ok |-> FALSE]
    ELSE [d |-> [d EXCEPT !.wire = @ \o <<"open", "close">>,
                          !.failed = TRUE],
          ok |-> FALSE]

\* A _disconnect that closes the socket and keeps the handle.
_disconnect_keeps_handle(d) ==
    IF d.printer # "None"
    THEN [d EXCEPT !.open = @ - 1, !.wire = @ \o <<"close">>]
    ELSE d

_disconnect(d) ==
    IF d.printer # "None"
    THEN [d EXCEPT !.printer = "None", !.open = @ - 1,
                   !.wire = @ \o <<"close">>]
    ELSE d

\* self.printer._raw(bytes): the bytes go out, or the send raises.
Raw(d, what, fails) ==
    IF fails THEN [d EXCEPT !.failed = TRUE]
    ELSE [d EXCEPT !.wire = Append(@, what)]

Begin(d) == [d EXCEPT !.wire = <<>>, !.failed = FALSE]

\* Where the body of print_image stops: nowhere, at the second
\* initialization opcode, in the image pipeline, or at the raster command.
ImageFaults == {"none", "init", "decode", "raster"}

print_image(d0, img, cf, bf) ==
    LET c == _connect(Begin(d0), cf) IN
    IF ~c.ok THEN [d |-> c.d, raised |-> TRUE]
    ELSE LET d1 == Raw(c.d, "init", bf = "init")
             bad == img = "corrupt" \/ bf = "decode"
             d2 == IF d1.failed THEN d1
                   ELSE IF bad THEN [d1 EXCEPT !.failed = TRUE]
                   ELSE Raw(d1, "raster", bf = "raster")
         IN [d |-> _disconnect(d2), raised |-> FALSE]

RECURSIVE Feeds(_, _, _)
Feeds(d, n, k) ==
    IF n = 0 THEN d
    ELSE IF k = 0 THEN [d EXCEPT !.failed = TRUE]
    ELSE Feeds(Raw(d, "lf", FALSE), n - 1, k - 1)

\* k: the number of line feeds that go out before a send raises (k >= n:
\* none raises).
print_empty_lines(d0, num_lines, cf, k) ==
    LET c == _connect(Begin(d0), cf) IN
    IF ~c.ok THEN [d |-> c.d, raised |-> TRUE]
    ELSE [d |-> _disconnect(Feeds(c.d, num_lines, k)), raised |-> FALSE]

cut_paper(d0, mode, cf, fails) ==
    LET c == _connect(Begin(d0), cf) IN
    IF ~c.ok THEN [d |-> c.d, raised |-> TRUE]
    ELSE LET d1 == IF mode = "full" THEN Raw(c.d, "cut_full", fails)
                   ELSE IF mode = "partial"
                        THEN Raw(c.d, "cut_partial", fails)
                   ELSE c.d
         IN [d |-> _disconnect(d1), raised |-> FALSE]

\* Every public operation returns [d: the driver afterwards, raised: it
\* raised ConnectionError, ret: what it returned].

check_connection(d0, cf) ==
    LET c == _connect(Begin(d0), cf) IN
    IF c.ok THEN [d |-> _disconnect(c.d), raised |-> FALSE, ret |-> TRUE]
    ELSE [d |-> c.d, raised |-> FALSE, ret |-> FALSE]

_send_raw_command(d0, cf, fails) ==
    LET c == _connect(Begin(d0), cf) IN
    IF ~c.ok THEN [d |-> c.d, raised |-> FALSE, ret |-> FALSE]
    ELSE [d |-> _disconnect(Raw(c.d, "command", fails)), raised |-> FALSE,
          ret |-> ~fails]

\* fails: the status request cannot be sent or the read raises.
read_printer_settings(d0, cf, fails) ==
    LET c == _connect(Begin(d0), cf) IN
    IF ~c.ok THEN [d |-> c.d, raised |-> FALSE, ret |-> FALSE]
    ELSE [d |-> _disconnect(Raw(c.d, "status_request", fails)),
          raised |-> FALSE, ret |-> TRUE]

\* Where print_text_raw stops: nowhere, at text.encode, at the text or at
\* the line feed.
TextFaults == {"none", "encode", "text", "lf"}

print_text_raw(d0, cf, tf) ==
    LET c == _connect(Begin(d0), cf) IN
    IF ~c.ok THEN [d |-> c.d, raised |-> FALSE, ret |-> "None"]
    ELSE LET d1 == IF tf = "encode" THEN [c.d EXCEPT !.failed = TRUE]
                   ELSE Raw(c.d, "text", tf = "text")
             d2 == IF d1.failed THEN d1 ELSE Raw(d1, "lf", tf = "lf")
         IN [d |-> _disconnect(d2), raised |-> FALSE,
             ret |-> IF tf = "encode" THEN "0" ELSE "None"]

\* print_image_from_bytes sends a line feed after the raster command.
BytesFaults == ImageFaults \cup {"lf"}

print_image_from_bytes(d0, img, cf, bf) ==
    LET c == _connect(Begin(d0), cf) IN
    IF ~c.ok THEN [d |-> c.d, raised |-> TRUE, ret |-> FALSE]
    ELSE LET d1 == Raw(c.d, "init", bf = "init")
             bad == img # "good" \/ bf = "decode"
             d2 == IF d1.failed THEN d1
                   ELSE IF bad THEN [d1 EXCEPT !.failed = TRUE]
                   ELSE Raw(d1, "raster", bf = "raster")
             d3 == IF d2.failed THEN d2 ELSE Raw(d2, "lf", bf = "lf")
         IN [d |-> _disconnect(d3), raised |-> FALSE, ret |-> TRUE]

\* Content bytes (anything but opening and closing) went out.
SentBytes(d) == \E i \in 1..Len(d.wire) : d.wire[i] \notin {"open", "close"}

----------------------------------------------------------------------------
(* AdminWebService/admin_server.py                                         *)

Created == {j \in JobIds : jobs[j].status # "NONE"}
\* Handlers that will still put an entry on job_queue.
Putting == {h \in Handlers : hpc[h] # "idle"}

\* Handler threads are interchangeable: a request is served by the first
\* thread that is free.
Free(h) == hpc[h] = "idle" /\ \A g \in Handlers : g < h => hpc[g] # "idle"

\* queue.Queue.get / put
QueueGetLast(q) == [item |-> q[Len(q)], rest |-> SubSeq(q, 1, Len(q) - 1)]
QueueGet(q) == [item |-> Head(q), rest |-> Tail(q)]
QueuePutTwice(q, e) == q \o <<e, e>>
QueuePut(q, e) == Append(q, e)

\* The HTTP status test_print answers with.
SubmitCodeNoExists(ip, f) == IF ip = "" \/ f = "" THEN 400 ELSE 200
SubmitCode(ip, f) ==
    IF ip = "" \/ f = "" THEN 400 ELSE IF f \notin files THEN 404 ELSE 200

\* test_print, up to db.add_job: validation, os.path.exists, uuid4, insert.
SubmitAdd(h, ip, f) ==
    /\ service = "admin" /\ Free(h)
    /\ Cardinality(Created) < MaxJobs
    /\ Len(enqLog) + Cardinality(Putting) < MaxEnq
    /\ IF SubmitCode(ip, f) # 200
       THEN UNCHANGED <<jobs, hpc, hjob>>
       ELSE LET j == Cardinality(Created) + 1 IN
            /\ jobs' = [jobs EXCEPT ![j] = [status |-> "QUEUED",
                                            file_name |-> f,
                                            printer_ip |-> ip]]
            /\ hpc' = [hpc EXCEPT ![h] = "s_put"]
            /\ hjob' = [hjob EXCEPT ![h] = j]
    /\ UNCHANGED <<service, pureVars, job_queue, files, wpc, wcur, wimg, wsent,
                   wraster, wfailed, enqLog, deqLog, procLog, skipped,
                   cancelledIdx, drv, recvVars>>

\* The entry test_print puts for job j.
SubmitEntry(j) == [job_id |-> j, file_path |-> jobs[j].file_name,
                   printer_ip |-> jobs[j].printer_ip]

\* test_print: job_queue.put and the response.
SubmitPut(h) ==
    /\ service = "admin" /\ hpc[h] = "s_put"
    /\ job_queue' = QueuePut(job_queue, SubmitEntry(hjob[h]))
    /\ enqLog' = Append(enqLog, SubmitEntry(hjob[h]))
    /\ hpc' = [hpc EXCEPT ![h] = "idle"]
    /\ hjob' = [hjob EXCEPT ![h] = 0]
    /\ UNCHANGED <<service, pureVars, jobs, files, wpc, wcur, wimg, wsent, wraster,
                   wfailed, deqLog, procLog, skipped, cancelledIdx, drv, recvVars>>

\* The HTTP status delete_job answers with.
CancelCode(j) == IF jobs[j].status = "NONE" THEN 404 ELSE 200

\* The status delete_job stores for a job whose status it read as st: the
\* two branches differ in the message only.
DeleteStatusRemovesRow(st) == "NONE"
DeleteStatusSparesRunning(st) == IF st = "PROCESSING" THEN st ELSE "DELETED"
DeleteStatusGuarded(st) == IF st \in {"QUEUED", "PROCESSING"} THEN "DELETED"
                           ELSE st
DeleteStatus(st) == IF st \in {"QUEUED", "PROCESSING"} THEN "DELETED"
                    ELSE "DELETED"

\* Positions of enqLog still in job_queue that hold job j.
QueuedIdx(j) == {i \in (Len(deqLog) + 1)..Len(enqLog) : enqLog[i].job_id = j}

\* delete_job.  The status it reads selects the message only and rows are
\* never removed, so db.get_job and db.update_job_status are one step.
CancelJob(j) ==
    /\ service = "admin"
    /\ IF CancelCode(j) # 200
       THEN UNCHANGED <<jobs, cancelledIdx>>
       ELSE /\ jobs' = [jobs EXCEPT ![j].status = DeleteStatus(@)]
            /\ cancelledIdx' = cancelledIdx \cup QueuedIdx(j)
    /\ UNCHANGED <<service, pureVars, job_queue, files, hpc, hjob, wpc, wcur, wimg,
                   wsent, wraster, wfailed, enqLog, deqLog, procLog, skipped,
                   drv, recvVars>>

\* The HTTP status retry_job's first check answers with (200: it goes on).
RetryCodeAnyStatus(st) == IF st = "NONE" THEN 404 ELSE 200
RetryCode(st) ==
    IF st = "NONE" THEN 404 ELSE IF st # "FAILED" THEN 400 ELSE 200

\* retry_job: db.get_job and the status check.
RetryRead(h, j) ==
    /\ service = "admin" /\ Free(h)
    /\ Len(enqLog) + Cardinality(Putting) < MaxEnq
    /\ IF RetryCode(jobs[j].status) # 200
       THEN UNCHANGED <<hpc, hjob>>
       ELSE /\ hpc' = [hpc EXCEPT ![h] = "r_exists"]
            /\ hjob' = [hjob EXCEPT ![h] = j]
    /\ UNCHANGED <<service, pureVars, jobs, job_queue, files, wpc, wcur, wimg, wsent,
                   wraster, wfailed, enqLog, deqLog, procLog, skipped,
                   cancelledIdx, drv, recvVars>>

\* retry_job: os.path.exists(file_path); 404 when the file is gone.
RetryExists(h) ==
    /\ service = "admin" /\ hpc[h] = "r_exists"
    /\ IF jobs[hjob[h]].file_name \in files
       THEN hpc' = [hpc EXCEPT ![h] = "r_write"] /\ UNCHANGED hjob
       ELSE /\ hpc' = [hpc EXCEPT ![h] = "idle"]
            /\ hjob' = [hjob EXCEPT ![h] = 0]
    /\ UNCHANGED <<service, pureVars, jobs, job_queue, files, wpc, wcur, wimg, wsent,
                   wraster, wfailed, enqLog, deqLog, procLog, skipped,
                   cancelledIdx, drv, recvVars>>

\* retry_job: db.update_job_status(job_id, 'QUEUED').
RetryWrite(h) ==
    /\ service = "admin" /\ hpc[h] = "r_write"
    /\ jobs' = [jobs EXCEPT ![hjob[h]].status = "QUEUED"]
    /\ hpc' = [hpc EXCEPT ![h] = "r_put"]
    /\ UNCHANGED <<service, pureVars, job_queue, files, hjob, wpc, wcur, wimg, wsent,
                   wraster, wfailed, enqLog, deqLog, procLog, skipped,
                   cancelledIdx, drv, recvVars>>

\* The entry retry_job puts for job j.
RetryEntryNoPath(j) == [job_id |-> j, file_path |-> "",
                        printer_ip |-> jobs[j].printer_ip]
RetryEntry(j) == [job_id |-> j, file_path |-> jobs[j].file_name,
                  printer_ip |-> jobs[j].printer_ip]

\* retry_job: job_queue.put and the response.
RetryPut(h) ==
    /\ service = "admin" /\ hpc[h] = "r_put"
    /\ job_queue' = QueuePut(job_queue, RetryEntry(hjob[h]))
    /\ enqLog' = Append(enqLog, RetryEntry(hjob[h]))
    /\ hpc' = [hpc EXCEPT ![h] = "idle"]
    /\ hjob' = [hjob EXCEPT ![h] = 0]
    /\ UNCHANGED <<service, pureVars, jobs, files, wpc, wcur, wimg, wsent, wraster,
                   wfailed, deqLog, procLog, skipped, cancelledIdx, drv, recvVars>>

\* upload_test_image saves a file; a file can also be removed from
\* UPLOAD_FOLDER behind the service's back.
Upload(f) ==
    /\ service = "admin" /\ f \notin files
    /\ files' = files \cup {f}
    /\ UNCHANGED <<service, pureVars, jobs, job_queue, hpc, hjob, wpc, wcur, wimg,
                   wsent, wraster, wfailed, enqLog, deqLog, procLog, skipped,
                   cancelledIdx, drv, recvVars>>

RemoveFile(f) ==
    /\ service = "admin" /\ f \in files
    /\ files' = files \ {f}
    /\ UNCHANGED <<service, pureVars, jobs, job_queue, hpc, hjob, wpc, wcur, wimg,
                   wsent, wraster, wfailed, enqLog, deqLog, procLog, skipped,
                   cancelledIdx, drv, recvVars>>

----------------------------------------------------------------------------
(* job_worker *)

\* Where the loop goes after an iteration: the try/except/finally is inside
\* `while True`, so it is back at job_queue.get whether or not the
\* iteration raised.
AfterJobStops(raised) == IF raised THEN "stopped" ELSE "get"
AfterJobDies(raised) == IF raised THEN "dead" ELSE "get"
AfterJob(raised) == IF raised THEN "get" ELSE "get"

\* job_queue.get(timeout=1); queue.Empty only repeats the wait.
WorkerGet ==
    /\ service = "admin" /\ wpc = "get" /\ job_queue # <<>>
    /\ wcur' = QueueGet(job_queue).item
    /\ job_queue' = QueueGet(job_queue).rest
    /\ deqLog' = Append(deqLog, QueueGet(job_queue).item)
    /\ wpc' = "check"
    /\ UNCHANGED <<service, pureVars, jobs, files, hpc, hjob, wimg, wsent, wraster,
                   wfailed, enqLog, procLog, skipped, cancelledIdx, drv, recvVars>>

\* The worker leaves alone a job whose status it read as st.
WorkerSkips(st) == st = "NONE" \/ st = "DELETED"

\* job = db.get_job(job_id); `continue` when there is no row or DELETED.
WorkerCheck ==
    /\ service = "admin" /\ wpc = "check"
    /\ IF WorkerSkips(jobs[wcur.job_id].status)
       THEN /\ wpc' = AfterJob(FALSE)
            /\ wcur' = NoEntry
            /\ skipped' = skipped \cup {Len(deqLog)}
            /\ cancelledIdx' = cancelledIdx \ {Len(deqLog)}
       ELSE wpc' = "mark" /\ UNCHANGED <<wcur, skipped, cancelledIdx>>
    /\ UNCHANGED <<service, pureVars, jobs, job_queue, files, hpc, hjob, wimg, wsent,
                   wraster, wfailed, enqLog, deqLog, procLog, drv, recvVars>>

\* The status the worker stores before it runs the job.
MarkStatusKept(st) == st
MarkStatus(st) == "PROCESSING"

\* db.update_job_status(job_id, 'PROCESSING')
WorkerMark ==
    /\ service = "admin" /\ wpc = "mark"
    /\ jobs' = [jobs EXCEPT ![wcur.job_id].status = MarkStatus(@)]
    /\ procLog' = Append(procLog, Len(deqLog))
    /\ wpc' = "open"
    /\ UNCHANGED <<service, pureVars, job_queue, files, hpc, hjob, wcur, wimg, wsent,
                   wraster, wfailed, enqLog, deqLog, skipped, cancelledIdx,
                   drv, recvVars>>

\* What Image.open(file_path) gives for a file that exists: an image that
\* decodes, an image whose pixel data fails to load when it is used, or
\* an exception (the file is no image).
OpenResults == {"good", "corrupt", "unreadable"}

\* driver = PrinterDriver(printer_ip); img = Image.open(file_path)
WorkerOpen ==
    /\ service = "admin" /\ wpc = "open"
    /\ \E r \in OpenResults :
         IF wcur.file_path \notin files \/ r = "unreadable"
         THEN wpc' = "fail" /\ wfailed' = TRUE /\ UNCHANGED wimg
         ELSE wpc' = "print" /\ wimg' = r /\ UNCHANGED wfailed
    /\ UNCHANGED <<service, pureVars, jobs, job_queue, files, hpc, hjob, wcur, wsent,
                   wraster, enqLog, deqLog, procLog, skipped, cancelledIdx,
                   drv, recvVars>>

\* The raster image command went out.
SentRaster(d) == \E i \in 1..Len(d.wire) : d.wire[i] = "raster"

\* A driver call of the worker.  The driver object is made for the job and
\* every operation leaves it without a handle, so each call starts from
\* PrinterDriver; the worker keeps what the call did in its ghosts.
DriverCall(r, next) ==
    /\ wfailed' = (wfailed \/ r.d.failed)
    /\ wsent' = (wsent \/ SentBytes(r.d))
    /\ wraster' = (wraster \/ SentRaster(r.d))
    /\ wpc' = IF r.raised THEN "fail" ELSE next
    /\ UNCHANGED <<service, pureVars, jobs, job_queue, files, hpc, hjob, wcur, wimg,
                   enqLog, deqLog, procLog, skipped, cancelledIdx, drv, recvVars>>

\* driver.print_image(img)
WorkerPrintImage ==
    /\ service = "admin" /\ wpc = "print"
    /\ \E cf \in ConnFaults, bf \in ImageFaults :
         DriverCall(print_image(PrinterDriver, wimg, cf, bf), "feed")

\* driver.print_empty_lines(3)
WorkerFeed ==
    /\ service = "admin" /\ wpc = "feed"
    /\ \E cf \in ConnFaults, k \in 0..3 :
         DriverCall(print_empty_lines(PrinterDriver, 3, cf, k), "cut")

\* driver.cut_paper()
WorkerCut ==
    /\ service = "admin" /\ wpc = "cut"
    /\ \E cf \in ConnFaults, fails \in BOOLEAN :
         DriverCall(cut_paper(PrinterDriver, "full", cf, fails), "success")

\* The status the worker stores when the iteration ends.
FinalStatusStuck(raised) == IF raised THEN "FAILED" ELSE "PROCESSING"
FinalStatus(raised) == IF raised THEN "FAILED" ELSE "SUCCESS"

\* db.update_job_status(job_id, 'SUCCESS' / 'FAILED'); task_done
WorkerFinish ==
    /\ service = "admin" /\ wpc \in {"success", "fail"}
    /\ jobs' = [jobs EXCEPT ![wcur.job_id].status = FinalStatus(wpc = "fail")]
    /\ wpc' = AfterJob(wpc = "fail")
    /\ wcur' = NoEntry
    /\ wimg' = "none"
    /\ wsent' = FALSE /\ wraster' = FALSE /\ wfailed' = FALSE
    /\ cancelledIdx' = cancelledIdx \ {Len(deqLog)}
    /\ UNCHANGED <<service, pureVars, job_queue, files, hpc, hjob, enqLog, deqLog,
                   procLog, skipped, drv, recvVars>>

job_worker ==
    \/ WorkerGet \/ WorkerCheck \/ WorkerMark \/ WorkerOpen
    \/ WorkerPrintImage \/ WorkerFeed \/ WorkerCut \/ WorkerFinish

AdminNext ==
    \/ \E h \in Handlers, ip \in Ips \cup {""}, f \in Files \cup {""} :
         SubmitAdd(h, ip, f)
    \/ \E h \in Handlers : SubmitPut(h)
    \/ \E j \in JobIds : CancelJob(j)
    \/ \E h \in Handlers, j \in JobIds : RetryRead(h, j)
    \/ \E h \in Handlers : RetryExists(h)
    \/ \E h \in Handlers : RetryWrite(h)
    \/ \E h \in Handlers : RetryPut(h)
    \/ \E f \in Files : Upload(f)
    \/ \E f \in Files : RemoveFile(f)
    \/ job_worker

----------------------------------------------------------------------------
(* WebService/server/server.py                                             *)

\* What a client's byte stream deserializes to: a job tuple with content
\* the converter turns into an image, one with no content at all, one whose
\* content the converter raises on; or nothing (deserialize_data raises).
Payloads == {"content", "empty", "bad"}
NoPayload == "none"

\* _handle_client: receive, deserialize_data, print_queue.put
HandleClient(p) ==
    /\ service = "receiver"
    /\ Len(rEnqLog) < MaxRecv
    /\ IF p = "malformed"
       THEN UNCHANGED <<print_queue, rEnqLog>>
       ELSE /\ print_queue' = QueuePut(print_queue, p)
            /\ rEnqLog' = Append(rEnqLog, p)
    /\ UNCHANGED <<service, pureVars, adminVars, rpc, rcur, rDeqLog, drv>>

\* Where the loop goes after an iteration: try/except/finally inside
\* `while True`.
AfterPrintJob(raised) == IF raised THEN "get" ELSE "get"

\* job_data = self.print_queue.get()
RecvGet ==
    /\ service = "receiver" /\ rpc = "get" /\ print_queue # <<>>
    /\ rcur' = QueueGet(print_queue).item
    /\ print_queue' = QueueGet(print_queue).rest
    /\ rDeqLog' = Append(rDeqLog, QueueGet(print_queue).item)
    /\ rpc' = "convert"
    /\ UNCHANGED <<service, pureVars, adminVars, rEnqLog, drv>>

\* header, body text, body images and footer to images, combined.
RecvConvert ==
    /\ service = "receiver" /\ rpc = "convert"
    /\ IF rcur = "content"
       THEN rpc' = "print" /\ UNCHANGED rcur
       ELSE rpc' = AfterPrintJob(rcur = "bad") /\ rcur' = NoPayload
    /\ UNCHANGED <<service, pureVars, adminVars, print_queue, rEnqLog, rDeqLog, drv>>

RecvCall(r, next) ==
    /\ drv' = r.d
    /\ rpc' = IF r.raised THEN AfterPrintJob(TRUE) ELSE next
    /\ rcur' = IF r.raised \/ next = "get" THEN NoPayload ELSE rcur
    /\ UNCHANGED <<service, pureVars, adminVars, print_queue, rEnqLog, rDeqLog>>

\* driver.print_image(printimg)
RecvPrintImage ==
    /\ service = "receiver" /\ rpc = "print"
    /\ \E cf \in ConnFaults, bf \in ImageFaults :
         RecvCall(print_image(drv, "good", cf, bf), "feed")

\* driver.print_empty_lines(5)
RecvFeed ==
    /\ service = "receiver" /\ rpc = "feed"
    /\ \E cf \in ConnFaults, k \in 0..5 :
         RecvCall(print_empty_lines(drv, 5, cf, k), "cut")

\* driver.cut_paper(mode='full')
RecvCut ==
    /\ service = "receiver" /\ rpc = "cut"
    /\ \E cf \in ConnFaults, fails \in BOOLEAN :
         RecvCall(cut_paper(drv, "full", cf, fails), AfterPrintJob(FALSE))

_printer_worker ==
    \/ RecvGet \/ RecvConvert \/ RecvPrintImage \/ RecvFeed \/ RecvCut

RecvNext ==
    \/ \E p \in Payloads \cup {"malformed"} : HandleClient(p)
    \/ _printer_worker

----------------------------------------------------------------------------
(* PrinterDriver used as a library: any sequence of public operations *)

Images == {"good", "corrupt"}
CutModes == {"full", "partial", "half"}

DriverOp(r) ==
    /\ service = "driver"
    /\ drv.open < MaxLeaks
    /\ drv' = r.d
    /\ UNCHANGED <<service, pureVars, adminVars, recvVars>>

CheckConnection == \E cf \in ConnFaults : DriverOp(check_connection(drv, cf))

ReadPrinterSettings ==
    \E cf \in ConnFaults, fails \in BOOLEAN :
        DriverOp(read_printer_settings(drv, cf, fails))

SendRawCommand ==
    \E cf \in ConnFaults, fails \in BOOLEAN :
        DriverOp(_send_raw_command(drv, cf, fails))

PrintTextRaw ==
    \E cf \in ConnFaults, tf \in TextFaults :
        DriverOp(print_text_raw(drv, cf, tf))

PrintImage ==
    \E cf \in ConnFaults, bf \in ImageFaults, img \in Images :
        DriverOp(print_image(drv, img, cf, bf))

PrintImageFromBytes ==
    \E cf \in ConnFaults, bf \in BytesFaults, img \in Images :
        DriverOp(print_image_from_bytes(drv, img, cf, bf))

PrintEmptyLines ==
    \E cf \in ConnFaults, n \in 0..3, k \in 0..3 :
        DriverOp(print_empty_lines(drv, n, cf, k))

CutPaper ==
    \E cf \in ConnFaults, mode \in CutModes, fails \in BOOLEAN :
        DriverOp(cut_paper(drv, mode, cf, fails))

DriverNext ==
    \/ CheckConnection \/ ReadPrinterSettings \/ SendRawCommand
    \/ PrintTextRaw \/ PrintImage \/ PrintImageFromBytes
    \/ PrintEmptyLines \/ CutPaper

----------------------------------------------------------------------------
(* WebService/common/network_utils.py                                      *)
(* A Python value is [t, v]: None, a str or a bytes object, v its          *)
(* characters or bytes as numbers (a Base64 str: its characters as their   *)
(* 6-bit values, 64 for "=").  A header or footer argument is None or a    *)
(* dict with "type" and "content".                                         *)

MaxBytes == 2       \* length of the content of an image header or footer
MaxImages == 2      \* length of body_image_bytes_list

PyNone == [t |-> "none", v |-> <<>>]
PyStr(s) == [t |-> "str", v |-> s]
PyBytes(b) == [t |-> "bytes", v |-> b]
NoDict == [present |-> FALSE, type |-> "", content |-> PyNone]
Dict(type, content) == [present |-> TRUE, type |-> type, content |-> content]

\* bool(x) of a Python value
Truthy(x) == x.t # "none" /\ x.v # <<>>

\* base64.b64encode(b).decode('utf-8')
RECURSIVE b64encode(_)
b64encode(b) ==
    IF b = <<>> THEN <<>>
    ELSE IF Len(b) = 1
         THEN LET n == b[1] * 65536
              IN <<n \div 262144, (n \div 4096) % 64, 64, 64>>
    ELSE IF Len(b) = 2
         THEN LET n == b[1] * 65536 + b[2] * 256
              IN <<n \div 262144, (n \div 4096) % 64, (n \div 64) % 64, 64>>
    ELSE LET n == b[1] * 65536 + b[2] * 256 + b[3]
         IN <<n \div 262144, (n \div 4096) % 64, (n \div 64) % 64, n % 64>>
               \o b64encode(SubSeq(b, 4, Len(b)))

\* base64.b64decode(s.encode('utf-8')) of a str b64encode made
RECURSIVE b64decode(_)
b64decode(s) ==
    IF Len(s) < 4 THEN <<>>
    ELSE LET n == s[1] * 262144 + s[2] * 4096
                    + (IF s[3] = 64 THEN 0 ELSE s[3] * 64)
                    + (IF s[4] = 64 THEN 0 ELSE s[4])
         IN IF s[3] = 64 THEN <<n \div 65536>>
            ELSE IF s[4] = 64 THEN <<n \div 65536, (n \div 256) % 256>>
            ELSE <<n \div 65536, (n \div 256) % 256, n % 256>>
                    \o b64decode(SubSeq(s, 5, Len(s)))

\* content_data is bytes, or a str that names no file.
_process_content(content_type, content_data) ==
    IF content_type = "text" THEN content_data
    ELSE IF content_type = "image"
         THEN IF content_data.t = "bytes"
              THEN PyStr(b64encode(content_data.v))
              ELSE PyNone
    ELSE PyNone

_deprocess_content(content_type, encoded_content) ==
    IF content_type = "text" THEN encoded_content
    ELSE IF content_type = "image" /\ Truthy(encoded_content)
         THEN PyBytes(b64decode(encoded_content.v))
    ELSE PyNone

\* The header or footer member serialize_data builds.
Processed(h) ==
    IF h.present /\ _process_content(h.type, h.content) # PyNone
    THEN Dict(h.type, _process_content(h.type, h.content))
    ELSE NoDict

\* The JSON document: the member names it has, and the value of each (of
\* a member it does not have: null).  json.dumps writes None as null and
\* json.loads reads null as None.
KeyNames == {"header", "body_text", "body_images", "footer"}

serialize_data(header, body_text, body_image_bytes_list, footer) ==
    [keys |-> KeyNames,
     header |-> Processed(header),
     body_text |-> body_text,
     body_images |-> [i \in 1..Len(body_image_bytes_list) |->
                        b64encode(body_image_bytes_list[i])],
     footer |-> Processed(footer)]

\* data.get(key)
Get(data, key) ==
    IF key \notin data.keys
    THEN (IF key \in {"header", "footer"} THEN NoDict ELSE PyNone)
    ELSE data[key]

\* The header_data or footer_data deserialize_data builds.
Deprocessed(m) ==
    IF m.present THEN Dict(m.type, _deprocess_content(m.type, m.content))
    ELSE NoDict

\* raised: json.loads gave a dict and no lookup in it failed.
deserialize_data_indexing(data) ==
    IF data.keys # KeyNames
    THEN [raised |-> TRUE, header |-> NoDict, body_text |-> PyNone,
          body_images |-> <<>>, footer |-> NoDict]
    ELSE [raised |-> FALSE,
          header |-> Deprocessed(data.header),
          body_text |-> IF Truthy(data.body_text) THEN data.body_text
                        ELSE PyStr(<<>>),
          body_images |-> [i \in 1..Len(data.body_images) |->
                             b64decode(data.body_images[i])],
          footer |-> Deprocessed(data.footer)]
deserialize_data(data) ==
    [raised |-> FALSE,
     header |-> Deprocessed(Get(data, "header")),
     body_text |-> IF Truthy(Get(data, "body_text"))
                   THEN Get(data, "body_text") ELSE PyStr(<<>>),
     body_images |-> IF "body_images" \in data.keys
                     THEN [i \in 1..Len(data.body_images) |->
                             b64decode(data.body_images[i])]
                     ELSE <<>>,
     footer |-> Deprocessed(Get(data, "footer"))]

----------------------------------------------------------------------------
\* Inputs of serialize_data.
ByteVals == {0, 255}
Texts == {<<>>, <<104, 105>>}
ImageChoices == {<<>>, <<255>>, <<0, 255, 16, 1>>}

RECURSIVE SeqsUpTo(_, _)
SeqsUpTo(S, n) ==
    IF n = 0 THEN {<<>>}
    ELSE SeqsUpTo(S, n - 1)
           \cup {Append(q, x) : q \in {r \in SeqsUpTo(S, n - 1) : Len(r) = n - 1},
                                x \in S}

HeaderArgs ==
    {NoDict} \cup {Dict("text", PyStr(t)) : t \in Texts}
             \cup {Dict("image", PyBytes(b)) : b \in SeqsUpTo(ByteVals, MaxBytes)}
BodyTexts == {PyNone} \cup {PyStr(t) : t \in Texts}
ImageLists == SeqsUpTo(ImageChoices, MaxImages)

NoArgs == [origin |-> "none", header |-> NoDict, body_text |-> PyNone,
           body_images |-> <<>>, footer |-> NoDict]
NoDocument == [keys |-> {}, header |-> NoDict, body_text |-> PyNone,
               body_images |-> <<>>, footer |-> NoDict]
NoResult == [raised |-> FALSE, header |-> NoDict, body_text |-> PyNone, body_images |-> <<>>,
             footer |-> NoDict]

\* An envelope some other client wrote: any of the four members may be
\* missing.
ClientDocument(keys) ==
    [keys |-> keys,
     header |-> IF "header" \in keys THEN Dict("text", PyStr(<<104, 105>>))
                ELSE NoDict,
     body_text |-> IF "body_text" \in keys THEN PyStr(<<104, 105>>)
                   ELSE PyNone,
     body_images |-> IF "body_images" \in keys THEN <<b64encode(<<255>>)>>
                     ELSE <<>>,
     footer |-> IF "footer" \in keys
                THEN Dict("image", PyStr(b64encode(<<0, 255>>)))
                ELSE NoDict]

Serialize ==
    /\ service = "envelope" /\ epc = "ready"
    /\ env_wire' = serialize_data(env_in.header, env_in.body_text,
                                  env_in.body_images, env_in.footer)
    /\ epc' = "serialized"
    /\ UNCHANGED <<service, adminVars, recvVars, drv, frameVars, pipeVars, regVars, env_in,
                   env_out>>

Deserialize ==
    /\ service = "envelope" /\ epc = "serialized"
    /\ env_out' = deserialize_data(env_wire)
    /\ epc' = "done"
    /\ UNCHANGED <<service, adminVars, recvVars, drv, frameVars, pipeVars, regVars, env_in,
                   env_wire>>

EnvNext == Serialize \/ Deserialize

----------------------------------------------------------------------------
(* WebService/server/server.py: _handle_client, the bytes of one client    *)
(* A byte string is a sequence of characters.  The marker is three         *)
(* characters long, so that it can arrive split over chunks; like          *)
(* <END_OF_TRANSMISSION> it does not overlap itself.                       *)

MaxPayload == 4     \* length of the serialized envelope

END_OF_TRANSMISSION == <<"<", "E", ">">>
PayloadChars == {"j", "<", "E", ">"}

\* sub in buf (bytes.__contains__)
Contains(buf, sub) ==
    \E i \in 1..(Len(buf) - Len(sub) + 1) :
        SubSeq(buf, i, i + Len(sub) - 1) = sub

\* buf.replace(old, b""): every occurrence, from the left
RECURSIVE Replace(_, _)
Replace(buf, old) ==
    IF Len(buf) < Len(old) THEN buf
    ELSE IF SubSeq(buf, 1, Len(old)) = old
         THEN Replace(SubSeq(buf, Len(old) + 1, Len(buf)), old)
    ELSE <<Head(buf)>> \o Replace(Tail(buf), old)

\* chunk = conn.recv(4096); data_buffer += chunk; the test for the marker.
\* n: the number of bytes this recv returns.
Recv(n) ==
    /\ service = "framing" /\ fpc = "recv"
    /\ n \in 1..Len(stream)
    /\ stream' = SubSeq(stream, n + 1, Len(stream))
    /\ LET buf == data_buffer \o SubSeq(stream, 1, n) IN
         IF Contains(buf, END_OF_TRANSMISSION)
         THEN data_buffer' = Replace(buf, END_OF_TRANSMISSION) /\ fpc' = "parse"
         ELSE data_buffer' = buf /\ fpc' = "recv"
    /\ UNCHANGED <<service, adminVars, recvVars, drv, envVars, pipeVars, regVars, payload, marked, parsed>>

\* recv returns b"": the client closed the connection.
RecvClosed ==
    /\ service = "framing" /\ fpc = "recv" /\ stream = <<>>
    /\ fpc' = "parse"
    /\ UNCHANGED <<service, adminVars, recvVars, drv, envVars, pipeVars, regVars, payload, marked,
                   stream, data_buffer, parsed>>

\* deserialize_data(data_buffer) and print_queue.put
Parse ==
    /\ service = "framing" /\ fpc = "parse"
    /\ parsed' = data_buffer
    /\ fpc' = "done"
    /\ UNCHANGED <<service, adminVars, recvVars, drv, envVars, pipeVars, regVars, payload, marked,
                   stream, data_buffer>>

FrameNext == (\E n \in 1..(MaxPayload + 3) : Recv(n)) \/ RecvClosed \/ Parse

----------------------------------------------------------------------------
(* MCP31PRINT/printer_driver.py: the image pipeline of print_image and     *)
(* print_image_from_bytes, as far as the size of the image goes            *)

MaxWidth == 20      \* width of the image given
MaxHeight == 2      \* height of the image given
MaxPaper == 17      \* paper_width_dots

Alignments == {0, 1, 2}

\* 3. img.resize((W, height * W // width)) when width > W.  Pillow refuses
\* a size with a side below 1 (ValueError).
resize_always(sz, W) ==
    [width |-> W, height |-> (sz.height * W) \div sz.width]
resize(sz, W) ==
    IF sz.width > W
    THEN [width |-> W, height |-> (sz.height * W) \div sz.width]
    ELSE sz

\* 6. pad the width to a multiple of 8
pad(sz) ==
    IF sz.width % 8 # 0
    THEN [sz EXCEPT !.width = sz.width + (8 - (sz.width % 8))]
    ELSE sz

\* 7. ImageOps.expand(img, (left, 0, right, 0))
expand(sz, left, right) == [sz EXCEPT !.width = left + sz.width + right]

align(sz, W, a) ==
    IF a = 1
    THEN LET padding_x == (W - sz.width) \div 2 IN
         IF padding_x > 0
         THEN expand(sz, padding_x, W - sz.width - padding_x)
         ELSE sz
    ELSE IF a = 2
         THEN LET padding_x == W - sz.width IN
              IF padding_x > 0 THEN expand(sz, padding_x, 0) ELSE sz
    ELSE sz

\* struct.pack("<H", v): two bytes, low byte first; struct.error when v
\* does not fit 16 bits.
pack(v) ==
    IF v < 0 \/ v > 65535 THEN [raised |-> TRUE, bytes |-> <<>>]
    ELSE [raised |-> FALSE, bytes |-> <<v % 256, v \div 256>>]

\* img.tobytes() of a mode "1" image: every row is packed into whole
\* bytes, 8 pixels a byte, the last byte of a row filled up.
tobytes(sz) == [row_bytes |-> (sz.width + 7) \div 8, rows |-> sz.height]

command_prefix == <<27, 29, 83, 1>>

NoCommand == [prefix |-> <<>>, x_bytes |-> <<>>, y_bytes |-> <<>>,
              reserved |-> <<>>, data |-> [row_bytes |-> 0, rows |-> 0]]

\* Every except clause of print_image prints and falls through: the
\* caller gets a plain return whether or not a stage raised.
\* 5. ImageOps.invert(img) on the 1-bit image: from here on a set bit is
\* a pixel that was black, the print mark of the raster command.
MarkBit == 1

\* The fill of Image.new("1", size, 1) and of ImageOps.expand(fill=1).
PadFill == 1

NoColumns == [left |-> 0, right |-> 0, bits |-> {}]

\* Columns of value fill put on the left and on the right.
AddColumns(a, left, right, fill) ==
    [left |-> a.left + left, right |-> a.right + right,
     bits |-> IF left + right > 0 THEN a.bits \cup {fill} ELSE a.bits]

\* 7. the border ImageOps.expand is called with, <<0, 0>> when it is not
\* called.
border(sz, W, a) ==
    IF a = 1 /\ (W - sz.width) \div 2 > 0
    THEN <<(W - sz.width) \div 2, W - sz.width - (W - sz.width) \div 2>>
    ELSE IF a = 2 /\ W - sz.width > 0 THEN <<W - sz.width, 0>>
    ELSE <<0, 0>>

PipeStep(next) ==
    /\ ppc' = next
    /\ reported' = (IF next \in {"done", "failed"} THEN "returned"
                    ELSE reported)
    /\ UNCHANGED <<service, adminVars, recvVars, drv, envVars, frameVars,
                   regVars, in_size, paper_width_dots, alignment>>

Resize ==
    /\ service = "pipeline" /\ ppc = "resize"
    /\ size' = resize(size, paper_width_dots)
    /\ UNCHANGED <<unpadded_width, added, full_command>>
    /\ PipeStep(IF size'.width < 1 \/ size'.height < 1 THEN "failed"
                ELSE "pad")

Pad ==
    /\ service = "pipeline" /\ ppc = "pad"
    /\ unpadded_width' = size.width
    /\ size' = pad(size)
    /\ added' = AddColumns(added, 0, pad(size).width - size.width, PadFill)
    /\ UNCHANGED full_command
    /\ PipeStep("align")

Align ==
    /\ service = "pipeline" /\ ppc = "align"
    /\ size' = align(size, paper_width_dots, alignment)
    /\ added' = AddColumns(added, border(size, paper_width_dots, alignment)[1],
                           border(size, paper_width_dots, alignment)[2],
                           PadFill)
    /\ UNCHANGED <<unpadded_width, full_command>>
    /\ PipeStep("encode")

\* 8, 9. img.tobytes() and the raster command
Encode ==
    /\ service = "pipeline" /\ ppc = "encode"
    /\ UNCHANGED <<size, unpadded_width, added>>
    /\ LET data == tobytes(size)
           x_bytes_val == size.width \div 8
           y_dots_val == size.height
           x_bytes == pack(x_bytes_val)
           y_bytes == pack(y_dots_val)
       IN IF x_bytes.raised \/ y_bytes.raised
          THEN UNCHANGED full_command /\ PipeStep("failed")
          ELSE /\ full_command' = [prefix |-> command_prefix,
                                   x_bytes |-> x_bytes.bytes,
                                   y_bytes |-> y_bytes.bytes,
                                   reserved |-> <<0>>, data |-> data]
               /\ PipeStep("done")

PipeNext == Resize \/ Pad \/ Align \/ Encode

----------------------------------------------------------------------------
(* AdminWebService: the printers table (database.py) and the handlers of   *)
(* /admin/config (admin_server.py).  Every database.py function runs in    *)
(* one SQLite transaction; a handler that makes two calls can be           *)
(* interleaved with other handlers between them.                           *)

MaxPrinters == 2    \* distinct addresses the clients name

\* An address is named by a number; 0 is the empty or missing field.
Addresses == 1..MaxPrinters
PrinterNames == {"", "Printer"}

NoPrinterArg == [name |-> "", ip_address |-> 0]

\* SELECT * FROM printers WHERE ip_address = ?
get_printer(tbl, ip) == {i \in 1..Len(tbl) : tbl[i].ip_address = ip}

PrinterRow(name, ip) == [ip_address |-> ip, name |-> name, is_default |-> 0]

\* INSERT INTO printers: ip_address is the PRIMARY KEY, so the insert of
\* a present address raises (IntegrityError) and is rolled back.
db_add_printer_unkeyed(tbl, name, ip) ==
    [raised |-> FALSE, tbl |-> Append(tbl, PrinterRow(name, ip))]
db_add_printer(tbl, name, ip) ==
    IF get_printer(tbl, ip) # {}
    THEN [raised |-> TRUE, tbl |-> tbl]
    ELSE [raised |-> FALSE, tbl |-> Append(tbl, PrinterRow(name, ip))]

\* DELETE FROM printers WHERE ip_address = ?; rowcount > 0
db_delete_printer(tbl, ip) ==
    [ret |-> get_printer(tbl, ip) # {},
     tbl |-> SelectSeq(tbl, LAMBDA r : r.ip_address # ip)]

\* UPDATE printers SET is_default = 0; UPDATE ... SET is_default = 1
\* WHERE ip_address = ?; rowcount > 0
set_default_printer(tbl, ip) ==
    [ret |-> get_printer(tbl, ip) # {},
     tbl |-> [i \in 1..Len(tbl) |->
                [tbl[i] EXCEPT !.is_default =
                    IF tbl[i].ip_address = ip THEN 1 ELSE 0]]]

RegStep(h, pc, arg, code) ==
    /\ apc' = [apc EXCEPT ![h] = pc]
    /\ aarg' = [aarg EXCEPT ![h] = arg]
    /\ aret' = [aret EXCEPT ![h] = code]
    /\ UNCHANGED <<service, adminVars, recvVars, drv, envVars, frameVars,
                   pipeVars>>

\* add_printer up to the existence check
AddPrinterCheck(h, name, ip) ==
    /\ service = "registry" /\ apc[h] = "idle"
    /\ UNCHANGED printers
    /\ IF name = "" \/ ip = 0 \/ get_printer(printers, ip) # {}
       THEN RegStep(h, "idle", NoPrinterArg, 400)
       ELSE RegStep(h, "insert", [name |-> name, ip_address |-> ip], 0)

\* add_printer: db.add_printer and the response
AddPrinterInsert(h) ==
    /\ service = "registry" /\ apc[h] = "insert"
    /\ Len(printers) <= MaxPrinters
    /\ LET r == db_add_printer(printers, aarg[h].name, aarg[h].ip_address) IN
         /\ printers' = r.tbl
         /\ RegStep(h, "idle", NoPrinterArg, IF r.raised THEN 500 ELSE 200)

\* delete_printer(ip)
DeletePrinter(h, ip) ==
    /\ service = "registry" /\ apc[h] = "idle"
    /\ LET r == db_delete_printer(printers, ip) IN
         /\ printers' = r.tbl
         /\ RegStep(h, "idle", NoPrinterArg, IF r.ret THEN 200 ELSE 404)

\* set_default
SetDefault(h, ip) ==
    /\ service = "registry" /\ apc[h] = "idle"
    /\ IF ip = 0
       THEN UNCHANGED printers /\ RegStep(h, "idle", NoPrinterArg, 400)
       ELSE LET r == set_default_printer(printers, ip) IN
              /\ printers' = r.tbl
              /\ RegStep(h, "idle", NoPrinterArg,
                         IF r.ret THEN 200 ELSE 404)

RegNext ==
    \/ \E h \in Handlers, name \in PrinterNames, ip \in Addresses \cup {0} :
         AddPrinterCheck(h, name, ip)
    \/ \E h \in Handlers : AddPrinterInsert(h)
    \/ \E h \in Handlers, ip \in Addresses : DeletePrinter(h, ip)
    \/ \E h \in Handlers, ip \in Addresses \cup {0} : SetDefault(h, ip)

----------------------------------------------------------------------------
\* The three services before their first step.
Started ==
    /\ jobs = [j \in JobIds |-> NoRow]
    /\ job_queue = <<>>
    /\ hpc = [h \in Handlers |-> "idle"]
    /\ hjob = [h \in Handlers |-> 0]
    /\ wpc = "get"
    /\ wcur = NoEntry
    /\ wimg = "none"
    /\ wsent = FALSE /\ wraster = FALSE /\ wfailed = FALSE
    /\ enqLog = <<>>
    /\ deqLog = <<>>
    /\ procLog = <<>>
    /\ skipped = {}
    /\ cancelledIdx = {}
    /\ print_queue = <<>>
    /\ rpc = "get"
    /\ rcur = NoPayload
    /\ rEnqLog = <<>>
    /\ rDeqLog = <<>>
    /\ drv = PrinterDriver

EnvOff ==
    epc = "off" /\ env_in = NoArgs /\ env_wire = NoDocument /\ env_out = NoResult

PipeOff ==
    /\ ppc = "off" /\ in_size = [width |-> 0, height |-> 0]
    /\ paper_width_dots = 0 /\ alignment = 0
    /\ size = [width |-> 0, height |-> 0] /\ unpadded_width = 0
    /\ added = NoColumns
    /\ full_command = NoCommand /\ reported = "off"

RegOff ==
    /\ printers = <<>>
    /\ apc = [h \in Handlers |-> "idle"]
    /\ aarg = [h \in Handlers |-> NoPrinterArg]
    /\ aret = [h \in Handlers |-> 0]

FrameOff ==
    /\ fpc = "off" /\ payload = <<>> /\ marked = FALSE /\ stream = <<>>
    /\ data_buffer = <<>> /\ parsed = <<>>

Init ==
    /\ service \in {"admin", "receiver", "driver"}
    /\ files \in (IF service = "admin" THEN SUBSET Files ELSE {{}})
    /\ Started
    /\ EnvOff /\ FrameOff /\ PipeOff /\ RegOff

\* One call of serialize_data followed by deserialize_data, or
\* deserialize_data on an envelope of another client.
EnvInit ==
    /\ service = "envelope" /\ files = {} /\ Started /\ FrameOff /\ PipeOff
    /\ RegOff
    /\ env_out = NoResult
    /\ \/ /\ epc = "ready" /\ env_wire = NoDocument
          /\ env_in \in [origin : {"serialize_data"}, header : HeaderArgs,
                          body_text : BodyTexts, body_images : ImageLists,
                          footer : HeaderArgs]
       \/ /\ epc = "serialized" /\ env_in = [NoArgs EXCEPT !.origin = "client"]
          /\ env_wire \in {ClientDocument(keys) : keys \in SUBSET KeyNames}

Next == AdminNext \/ RecvNext \/ DriverNext

Spec == Init /\ [][Next]_vars

EnvSpec == EnvInit /\ [][EnvNext]_vars

\* One client connection: the client sends its envelope and the marker,
\* or closes the connection early.
FrameInit ==
    /\ service = "framing" /\ files = {} /\ Started /\ EnvOff /\ PipeOff
    /\ RegOff
    /\ fpc = "recv" /\ data_buffer = <<>> /\ parsed = <<>>
    /\ payload \in SeqsUpTo(PayloadChars, MaxPayload)
    /\ marked \in BOOLEAN
    /\ stream = (IF marked THEN payload \o END_OF_TRANSMISSION ELSE payload)

FrameSpec == FrameInit /\ [][FrameNext]_vars

\* Sizes at the edge of the 16-bit fields of the raster command.
TallHeights == {65535, 65536}
WideWidths == {524280, 524288}
WidePapers == {524288}

\* One run of the pipeline on an image that was opened: any size from
\* 1 x 1, any paper width from 1, any alignment.
PipeInit ==
    /\ service = "pipeline" /\ files = {} /\ Started /\ EnvOff /\ FrameOff
    /\ RegOff
    /\ ppc = "resize"
    /\ in_size \in [width : (1..MaxWidth) \cup WideWidths,
                     height : (1..MaxHeight) \cup TallHeights]
    /\ paper_width_dots \in (1..MaxPaper) \cup WidePapers
    /\ alignment \in Alignments
    /\ size = in_size
    /\ unpadded_width = 0
    /\ added = NoColumns
    /\ full_command = NoCommand /\ reported = "running"

PipeSpec == PipeInit /\ [][PipeNext]_vars

\* The admin service with an empty printers table (init_db on a new file).
RegInit ==
    /\ service = "registry" /\ files = {} /\ Started
    /\ EnvOff /\ FrameOff /\ PipeOff /\ RegOff

RegSpec == RegInit /\ [][RegNext]_vars

\* The admin service with its upload folder left alone, every request
\* handler running to its response and the worker thread scheduled
\* fairly; every driver call returns or raises within its step.
LiveInit ==
    /\ service = "admin" /\ files = Files /\ Started
    /\ EnvOff /\ FrameOff /\ PipeOff /\ RegOff

HandlerStep(h) ==
    SubmitPut(h) \/ RetryExists(h) \/ RetryWrite(h) \/ RetryPut(h)

\* Requests that lead to a put are taken while one put less than MaxEnq
\* is made or under way.
LiveRoom == Len(enqLog) + Cardinality(Putting) + 1 < MaxEnq

LiveNext ==
    \/ \E h \in Handlers, ip \in Ips \cup {""}, f \in Files \cup {""} :
         LiveRoom /\ SubmitAdd(h, ip, f)
    \/ \E j \in JobIds : CancelJob(j)
    \/ \E h \in Handlers, j \in JobIds : LiveRoom /\ RetryRead(h, j)
    \/ \E h \in Handlers : HandlerStep(h)
    \/ job_worker

LiveSpec ==
    /\ LiveInit /\ [][LiveNext]_vars
    /\ WF_vars(job_worker)
    /\ \A h \in Handlers : WF_vars(HandlerStep(h))

----------------------------------------------------------------------------
(* Properties *)

Busy == {"open", "print", "feed", "cut", "success", "fail"}

\* Positions of deqLog whose turn came and that were not skipped.
Turned == {i \in 1..Len(deqLog) :
             i \notin skipped /\ (i = Len(deqLog) => wpc \in Busy \cup {"get"})}

RECURSIVE Ascending(_)
Ascending(S) ==
    IF S = {} THEN <<>>
    ELSE LET m == CHOOSE x \in S : \A y \in S : x <= y
         IN <<m>> \o Ascending(S \ {m})

\* C1: both queues are FIFO (what was put is what was got followed by what
\* is still queued), the worker sets PROCESSING the entries in the order
\* they were put, leaving out exactly the skipped ones, and it skips an
\* entry only when it reads its job as DELETED.
C1_FIFO ==
    /\ [](enqLog = deqLog \o job_queue)
    /\ [](rEnqLog = rDeqLog \o print_queue)
    /\ [](/\ Len(procLog) = Cardinality(Turned)
          /\ \A k \in 1..Len(procLog) : procLog[k] = Ascending(Turned)[k])
    /\ [][skipped' # skipped => jobs[wcur.job_id].status = "DELETED"]_vars

\* Three entries were put; the second was skipped and the first and the
\* third were processed.
C1_Witness ==
    /\ Len(deqLog) = 3 /\ skipped = {2} /\ procLog = <<1, 3>>
    /\ wpc = "print"

\* C2: no byte goes to a device for an entry that was still in job_queue
\* when a cancel of its job completed.
C2_CancelledNeverSent == ~(wsent /\ Len(deqLog) \in cancelledIdx)

\* C3: at most one row is PROCESSING, and it is the row of the job the
\* worker is running.
C3_OneProcessing ==
    /\ Cardinality({j \in JobIds : jobs[j].status = "PROCESSING"}) <= 1
    /\ \A j \in JobIds :
         jobs[j].status = "PROCESSING" => wcur.job_id = j /\ wpc \in Busy

\* A job is PROCESSING while the entry of another job, QUEUED, waits in
\* job_queue.
C3_Witness ==
    \E j, k \in JobIds :
        /\ jobs[j].status = "PROCESSING" /\ jobs[k].status = "QUEUED"
        /\ QueuedIdx(k) # {}

C6_NoBackwardStep ==
    [][\A j \in JobIds :
         /\ ~(jobs[j].status = "PROCESSING" /\ jobs'[j].status = "QUEUED")
         /\ ~(jobs[j].status = "SUCCESS" /\ jobs'[j].status = "PROCESSING")
      ]_vars

\* C7: the worker marks a job SUCCESS only if none of its commands failed
\* to be built or sent.
C7_FailureGivesFailed ==
    [][\A j \in JobIds :
         jobs[j].status # "SUCCESS" /\ jobs'[j].status = "SUCCESS"
            => ~wfailed]_vars

C9_SocketsClosed == drv.open = 0

\* C10: a retry goes on only if it read FAILED and found the file; a retry
\* that finds the file gone changes neither a row nor the queue.
C10_RetryRejected ==
    [][\A h \in Handlers :
         /\ (hpc[h] = "idle" /\ hpc'[h] = "r_exists")
               => jobs[hjob'[h]].status = "FAILED"
         /\ (hpc[h] = "r_exists" /\ hpc'[h] = "r_write")
               => jobs[hjob[h]].file_name \in files
         /\ (hpc[h] = "r_exists" /\ hpc'[h] = "idle")
               => /\ jobs[hjob[h]].file_name \notin files
                  /\ jobs' = jobs /\ job_queue' = job_queue
         /\ (hpc'[h] \in {"r_write", "r_put"} /\ hpc'[h] # hpc[h])
               => hpc[h] \in {"r_exists", "r_write"}
      ]_vars

\* A retry read FAILED, and the file is gone when it looks for it.
C10_Witness ==
    \E h \in Handlers :
        hpc[h] = "r_exists" /\ jobs[hjob[h]].file_name \notin files

\* The first entry put on job_queue for job j: the one test_print put.
FirstEntry(j) ==
    enqLog[CHOOSE i \in 1..Len(enqLog) :
             /\ enqLog[i].job_id = j
             /\ \A k \in 1..(i - 1) : enqLog[k].job_id # j]

\* C11: the write of a retry that passed its checks stores QUEUED in the
\* job's row and touches no other row; its put appends one entry, equal to
\* the entry the submission put (same job id, file and printer address),
\* and changes no row.  No step of a retry creates a row.
C11_RetryRequeues ==
    [][\A h \in Handlers :
         /\ (hpc[h] = "r_write" /\ hpc'[h] = "r_put") =>
               /\ jobs'[hjob[h]].status = "QUEUED"
               /\ \A j \in JobIds \ {hjob[h]} : jobs'[j] = jobs[j]
               /\ jobs'[hjob[h]].file_name = jobs[hjob[h]].file_name
               /\ jobs'[hjob[h]].printer_ip = jobs[hjob[h]].printer_ip
               /\ job_queue' = job_queue
         /\ (hpc[h] = "r_put" /\ hpc'[h] = "idle") =>
               /\ job_queue' = Append(job_queue, FirstEntry(hjob[h]))
               /\ enqLog' = Append(enqLog, FirstEntry(hjob[h]))
               /\ jobs' = jobs
         /\ (hpc[h] \in {"r_exists", "r_write", "r_put"} /\ hpc'[h] # hpc[h]) =>
               {j \in JobIds : jobs'[j].status # "NONE"} = Created
      ]_vars

\* A retry of a failed job has completed: the job is QUEUED and its second
\* entry waits in job_queue.
C11_Witness ==
    /\ Len(enqLog) = 2 /\ enqLog[1].job_id = enqLog[2].job_id
    /\ job_queue = <<enqLog[2]>>
    /\ jobs[enqLog[2].job_id].status = "QUEUED"
    /\ \A h \in Handlers : hpc[h] = "idle"

\* C12: a testprint request with no address, no file name or a file that
\* is not there changes nothing (no row, no handler on its way to put an
\* entry); a row is created only with an address, a file name and the
\* file present, and only a submission that created a row puts an entry.
C12_SubmitRejected ==
    /\ [](\A h \in Handlers, ip \in Ips \cup {""}, f \in Files \cup {""} :
            (ip = "" \/ f = "" \/ f \notin files) =>
               /\ SubmitCode(ip, f) \in {400, 404}
               /\ ~ENABLED (SubmitAdd(h, ip, f) /\ vars' # vars))
    /\ [][\A j \in JobIds :
            (jobs[j].status = "NONE" /\ jobs'[j].status # "NONE") =>
               /\ jobs'[j].printer_ip # "" /\ jobs'[j].file_name # ""
               /\ jobs'[j].file_name \in files
               /\ job_queue' = job_queue
               /\ \E h \in Handlers : hpc'[h] = "s_put" /\ hjob'[h] = j]_vars
    /\ [][\A h \in Handlers :
            (hpc'[h] = "s_put" /\ hpc[h] # "s_put") =>
               jobs[hjob'[h]].status = "NONE" /\ jobs'[hjob'[h]].status = "QUEUED"
      ]_vars

\* A job exists, its file is gone, and a request naming the file arrives
\* at a free handler: it is answered 404.
C12_Witness ==
    /\ Created # {} /\ files = {}
    /\ SubmitCode("192.168.1.50", "a.png") = 404
    /\ \E h \in Handlers : ENABLED SubmitAdd(h, "192.168.1.50", "a.png")

\* C13: a row is created under an id no row had, with status QUEUED, in a
\* step that puts nothing; the handler that created it then puts exactly
\* one entry for it, whatever the worker is doing; so a job with a row
\* has either the handler about to put its entry or an entry already put,
\* and every entry put, queued or held by the worker names a job with a
\* row.
C13_RecordBeforeEntry ==
    /\ [](\A i \in 1..Len(enqLog) : jobs[enqLog[i].job_id].status # "NONE")
    /\ [](\A i \in 1..Len(job_queue) :
            jobs[job_queue[i].job_id].status # "NONE")
    /\ [](wcur # NoEntry => jobs[wcur.job_id].status # "NONE")
    /\ [](\A j \in Created :
            /\ Cardinality({h \in Handlers :
                               hpc[h] = "s_put" /\ hjob[h] = j}) <= 1
            /\ (\E h \in Handlers : hpc[h] = "s_put" /\ hjob[h] = j)
                  # (\E i \in 1..Len(enqLog) : enqLog[i].job_id = j))
    /\ [](\A h \in Handlers : hpc[h] = "s_put" => ENABLED SubmitPut(h))
    /\ [][\A h \in Handlers :
            /\ (hpc[h] = "idle" /\ hpc'[h] = "s_put") =>
                  /\ hjob'[h] \notin Created
                  /\ jobs'[hjob'[h]].status = "QUEUED"
                  /\ job_queue' = job_queue
            /\ (hpc[h] = "s_put" /\ hpc'[h] = "idle") =>
                  /\ Len(job_queue') = Len(job_queue) + 1
                  /\ SubSeq(job_queue', 1, Len(job_queue)) = job_queue
                  /\ job_queue'[Len(job_queue')].job_id = hjob[h]
                  /\ jobs' = jobs
      ]_vars

\* A submission has returned while the worker is busy with another job:
\* the new job is QUEUED and its entry waits.
C13_Witness ==
    \E j \in JobIds :
        /\ jobs[j].status = "QUEUED" /\ QueuedIdx(j) # {}
        /\ wpc \in Busy /\ wcur.job_id # j
        /\ \A h \in Handlers : hpc[h] = "idle"

\* C14: a cancel of the job the worker is running stores DELETED and
\* leaves the worker where it is, with its entry, its image and the
\* queue; the worker, whatever the stored status, can still send the
\* raster, the line feeds and the cut; and its final write, which it
\* makes only after the last driver call or a raise, stores SUCCESS or
\* FAILED over whatever is stored, DELETED included.
C14_CancelDoesNotPreempt ==
    /\ [](\A j \in JobIds : jobs[j].status = "PROCESSING" =>
            /\ CancelCode(j) = 200
            /\ ENABLED (CancelJob(j) /\ jobs'[j].status = "DELETED"))
    /\ [](wpc \in Busy /\ jobs[wcur.job_id].status = "DELETED" =>
            /\ wpc = "print" /\ wimg = "good"
                  => ENABLED (WorkerPrintImage /\ wraster' /\ wpc' = "feed")
            /\ wpc = "feed" => ENABLED (WorkerFeed /\ wsent' /\ wpc' = "cut")
            /\ wpc = "cut" => ENABLED (WorkerCut /\ wsent' /\ wpc' = "success")
            /\ wpc \in {"success", "fail"} =>
                  ENABLED (WorkerFinish /\ jobs'[wcur.job_id].status
                              = (IF wpc = "fail" THEN "FAILED" ELSE "SUCCESS")))
    /\ [][\A j \in JobIds :
            (jobs[j].status = "PROCESSING" /\ jobs'[j].status = "DELETED") =>
               /\ wpc' = wpc /\ wcur' = wcur /\ wimg' = wimg
               /\ wsent' = wsent /\ wraster' = wraster
               /\ job_queue' = job_queue]_vars
    /\ [][\A j \in JobIds :
            (jobs[j].status = "DELETED"
               /\ jobs'[j].status \in {"SUCCESS", "FAILED"}) =>
               /\ wcur.job_id = j
               /\ wpc = (IF jobs'[j].status = "SUCCESS" THEN "success"
                                                        ELSE "fail")]_vars

\* The job was cancelled while the worker ran it, and the worker has sent
\* the raster, the line feeds and the cut and is about to write SUCCESS.
C14_Witness ==
    /\ wpc = "success" /\ wraster /\ ~wfailed
    /\ jobs[wcur.job_id].status = "DELETED"

\* C15: when the worker is about to send the first byte of a job, every
\* connection opened for an earlier job is closed.
C15_StreamsApart ==
    (service = "receiver" /\ rpc = "print") => drv.open = 0 /\ drv.printer = "None"

\* What serialize_data was given, as deserialize_data should return it.
Sent ==
    [raised |-> FALSE,
     header |-> env_in.header,
     body_text |-> IF env_in.body_text = PyNone THEN PyStr(<<>>)
                   ELSE env_in.body_text,
     body_images |-> env_in.body_images,
     footer |-> env_in.footer]

\* C16: deserialize_data(serialize_data(h, body_text, images, f)) gives
\* back h, body_text (the empty string for None), images and f.
C16_RoundTrip ==
    (epc = "done" /\ env_in.origin = "serialize_data") => env_out = Sent

\* C17: deserialize_data does not fail on an envelope with members
\* missing, and gives None for a missing header or footer, the empty
\* string for a missing body_text and the empty list for missing
\* body_images; the members that are there are decoded.
C17_AbsentFieldsDefault ==
    (epc = "done" /\ env_in.origin = "client") =>
        /\ ~env_out.raised
        /\ env_out.header = (IF "header" \in env_wire.keys
                              THEN Dict("text", PyStr(<<104, 105>>))
                              ELSE NoDict)
        /\ env_out.body_text = (IF "body_text" \in env_wire.keys
                                 THEN PyStr(<<104, 105>>) ELSE PyStr(<<>>))
        /\ env_out.body_images = (IF "body_images" \in env_wire.keys
                                   THEN <<(<<255>>)>> ELSE <<>>)
        /\ env_out.footer = (IF "footer" \in env_wire.keys
                              THEN Dict("image", PyBytes(<<0, 255>>))
                              ELSE NoDict)

\* An envelope with body_text only was decoded.
C17_Witness ==
    /\ epc = "done" /\ env_in.origin = "client"
    /\ env_wire.keys = {"body_text"}
    /\ env_out.body_text = PyStr(<<104, 105>>)

\* C18: when the client sent its envelope and then the marker, the bytes
\* the handler parses are the bytes of the envelope, however the stream
\* was cut into chunks.
C18_FramingExact ==
    (fpc = "done" /\ marked) => parsed = payload

\* The height the image given has after the downscale, if any.
ScaledHeight ==
    IF in_size.width > paper_width_dots
    THEN (in_size.height * paper_width_dots) \div in_size.width
    ELSE in_size.height

\* C19: the pipeline gives a raster whose width is a multiple of 8 and
\* whose height is the height of the image, downscaled if the image was,
\* and at least 1.
C19_RasterShape ==
    /\ ppc # "failed"
    /\ ppc = "done" =>
          /\ size.width % 8 = 0
          /\ size.height = ScaledHeight /\ size.height >= 1

\* C20 as claimed: the raster of an image wider than the paper is exactly
\* as wide as the paper.
C20_WideGivesPaperWidth ==
    (ppc = "done" /\ in_size.width > paper_width_dots)
        => size.width = paper_width_dots

\* C20 as amended: when the pipeline gives a raster, an image wider than
\* the paper was downscaled to the paper width and the raster is as wide
\* as the paper width rounded up to a multiple of 8 (the paper width
\* itself when that is a multiple of 8); an image no wider than the paper
\* enters the padding with its own width, and is never upscaled.
C20_WidthAfterDownscale ==
    /\ (ppc \in {"align", "encode", "done"}
           /\ in_size.width > paper_width_dots) =>
          /\ unpadded_width = paper_width_dots
          /\ ppc = "done" =>
                /\ size.width = ((paper_width_dots + 7) \div 8) * 8
                /\ paper_width_dots % 8 = 0 => size.width = paper_width_dots
    /\ (ppc \in {"align", "encode", "done"}
           /\ in_size.width <= paper_width_dots) =>
          /\ unpadded_width = in_size.width
          /\ size.height = in_size.height
    /\ pad(resize([width |-> 300, height |-> 200], 576)).width = 304
    /\ resize([width |-> 1200, height |-> 800], 576).width = 576

\* An image wider than a paper whose width is no multiple of 8 went
\* through the pipeline.
C20_Witness ==
    /\ ppc = "done" /\ in_size.width > paper_width_dots
    /\ paper_width_dots % 8 # 0 /\ size.width > paper_width_dots

\* C21: when the image of a job cannot be decoded, no byte of that job,
\* the initialization opcode included, goes to the printer.
C21_DecodeFailureSendsNothing ==
    (service = "admin" /\ wpc = "feed" /\ wimg = "corrupt") => ~wsent

\* C22: an add_printer of an address that is registered is rejected and
\* leaves the printers table as it was, whether the handler finds the
\* address at its check or only at its insert; the table never holds two
\* rows with the same address.
C22_NoDuplicateAddress ==
    /\ [](\A i, j \in 1..Len(printers) :
            printers[i].ip_address = printers[j].ip_address => i = j)
    /\ [][\A h \in Handlers :
            /\ \A name \in PrinterNames, ip \in Addresses :
                 (AddPrinterCheck(h, name, ip)
                     /\ get_printer(printers, ip) # {})
                    => (printers' = printers /\ aret'[h] = 400)
            /\ (apc[h] = "insert" /\ apc'[h] = "idle"
                   /\ get_printer(printers, aarg[h].ip_address) # {})
                  => (printers' = printers /\ aret'[h] = 500)]_vars

\* Two handlers added the same address at once: one was answered 200, the
\* other lost at the insert.
C22_Witness ==
    \E h, g \in Handlers :
        /\ aret[h] = 500 /\ aret[g] = 200
        /\ Len(printers) = 1

\* The rows that hold the default flag.
Defaults(tbl) == {i \in 1..Len(tbl) : tbl[i].is_default = 1}

\* C23: at most one printer holds the default flag, and from the first
\* set-default that succeeded on, exactly one printer holds it (a flag
\* only comes from a set-default that succeeded, so: once a printer holds
\* the flag, some printer holds it after every step).
C23_OneDefault ==
    /\ [](Cardinality(Defaults(printers)) <= 1)
    /\ [][Cardinality(Defaults(printers)) = 1
            => Cardinality(Defaults(printers')) = 1]_vars

\* C24: a job record is never removed: a job id that has a row keeps a row
\* after every step, and a cancel leaves the row in place, marked DELETED.
C24_RecordsKept ==
    [][/\ \A j \in JobIds :
            jobs[j].status # "NONE"
                => /\ jobs'[j].status # "NONE"
                   /\ jobs'[j].file_name = jobs[j].file_name
                   /\ jobs'[j].printer_ip = jobs[j].printer_ip
       /\ \A j \in JobIds :
            (CancelJob(j) /\ jobs[j].status # "NONE")
                => jobs'[j].status = "DELETED"]_vars

\* Both job ids were created, one was cancelled and retried or run since,
\* and both rows are there.
C24_Witness ==
    /\ \A j \in JobIds : jobs[j].status # "NONE"
    /\ \E j \in JobIds : jobs[j].status = "DELETED"
    /\ Len(deqLog) >= 1

\* The operation opened a connection.
Opened(d) == \E i \in 1..Len(d.wire) : d.wire[i] = "open"

\* C25: a job has one connection: once print_image has opened a
\* connection for the job and sent on it, the line feeds and the cut of
\* that job go out without another connection being opened.
C25_OneConnectionPerJob ==
    /\ (service = "admin" /\ wpc = "feed" /\ wsent) =>
          \A cf \in ConnFaults, k \in 0..3 :
              ~Opened(print_empty_lines(PrinterDriver, 3, cf, k).d)
    /\ (service = "admin" /\ wpc = "cut" /\ wsent) =>
          \A cf \in ConnFaults, fails \in BOOLEAN :
              ~Opened(cut_paper(PrinterDriver, "full", cf, fails).d)

\* The positions of the wire that hold the initialization opcode.
Inits(d) == {i \in 1..Len(d.wire) : d.wire[i] = "init"}

\* C26: on a connection that carried bytes, the initialization opcode
\* went out exactly once, and first.
C26_InitOncePerConnection ==
    (service = "driver" /\ Opened(drv) /\ SentBytes(drv)) =>
        /\ Cardinality(Inits(drv)) = 1
        /\ drv.wire[2] = "init"

\* The value of a little-endian 16-bit field.
UShort(b) == b[1] + 256 * b[2]

\* C27: the raster command is the 4-byte prefix, the width in bytes
\* (exactly an eighth of the width in dots) and the height in dots as
\* little-endian 16-bit fields, one zero byte and the packed pixels, and
\* the pixels are width-in-bytes times height bytes.
C27_RasterCommand ==
    ppc = "done" =>
        /\ full_command.prefix = <<27, 29, 83, 1>>
        /\ Len(full_command.x_bytes) = 2 /\ Len(full_command.y_bytes) = 2
        /\ 8 * UShort(full_command.x_bytes) = size.width
        /\ UShort(full_command.y_bytes) = size.height
        /\ full_command.reserved = <<0>>
        /\ full_command.data.row_bytes = UShort(full_command.x_bytes)
        /\ full_command.data.rows = UShort(full_command.y_bytes)

\* C28: a raster whose height or width in bytes is over 65535 is not
\* encoded: no command goes out, and the caller is told of the failure.
C28_OversizeRejected ==
    (ppc \in {"done", "failed"}
        /\ (size.height > 65535 \/ size.width \div 8 > 65535)
        /\ size.height >= 1)
      => (full_command = NoCommand /\ reported = "raised")

\* C29: cut_paper sends the full-cut opcode for 'full' and the
\* partial-cut opcode for 'partial'; for any other mode nothing at all
\* goes to the device.
C29_CutModes ==
    [][\A cf \in ConnFaults, fails \in BOOLEAN :
          /\ DriverOp(cut_paper(drv, "half", cf, fails)) => ~SentBytes(drv')
          /\ \A mode \in {"full", "partial"} :
               (DriverOp(cut_paper(drv, mode, cf, fails))
                   /\ cf = "ok" /\ ~fails)
                  => drv'.wire[3] = (IF mode = "full" THEN "cut_full"
                                     ELSE "cut_partial")]_vars

\* C30: print_text_raw sends the encoded text and one line feed; when the
\* text cannot be encoded the caller is told and nothing at all goes to
\* the device.
C30_TextOrNothing ==
    [][\A cf \in ConnFaults :
          /\ DriverOp(print_text_raw(drv, cf, "encode"))
                => ~SentBytes(drv')
          /\ (DriverOp(print_text_raw(drv, cf, "none")) /\ cf = "ok")
                => SubSeq(drv'.wire, 3, 4) = <<"text", "lf">>]_vars

\* C31: an image wider than the paper is resized to the paper width and
\* to the height round(height * W / width): the new height is within a
\* half of height * W / width (whichever way a half is rounded).
C31_RoundedHeight ==
    (ppc # "resize" /\ in_size.width > paper_width_dots) =>
        LET exact2 == 2 * in_size.height * paper_width_dots
            got2 == 2 * size.height * in_size.width
        IN /\ got2 - exact2 <= in_size.width
           /\ exact2 - got2 <= in_size.width
           /\ ppc = "pad" => size.width = paper_width_dots

\* C32: the columns added by the width padding and by the alignment are
\* unset bits of the raster, where a set bit is a print mark; the width
\* padding adds on the right only, and no padding changes the height.
C32_PaddingIsWhite ==
    /\ ppc \in {"align", "encode", "done"} =>
          /\ MarkBit \notin added.bits
          /\ size.width = unpadded_width + added.left + added.right
          /\ size.height = ScaledHeight
    /\ ppc = "align" => added.left = 0

\* C33: left alignment adds no column; center alignment adds
\* (W - width) / 2 columns on the left and the rest on the right, and the
\* result is exactly W wide; right alignment adds W - width columns on the
\* left; an image W wide or wider keeps its width.
C33_Alignment ==
    [][Align =>
        LET width == size.width
            W == paper_width_dots
            left == added'.left - added.left
            right == added'.right - added.right
        IN /\ size'.width >= width
           /\ size'.height = size.height
           /\ alignment = 0 => (left = 0 /\ right = 0)
           /\ width >= W => size'.width = width
           /\ (alignment = 1 /\ width < W) =>
                 /\ left = (W - width) \div 2
                 /\ right = W - width - left
                 /\ size'.width = W
           /\ (alignment = 2 /\ width < W) =>
                 /\ left = W - width /\ right = 0
                 /\ size'.width = W]_vars

\* C34: a job id occurs in at most one entry of job_queue.
C34_OneEntryPerJob ==
    \A i, k \in 1..Len(job_queue) :
        job_queue[i].job_id = job_queue[k].job_id => i = k

\* C35: after a cancel of a job that read QUEUED has succeeded, the job
\* does not become PROCESSING: a step that leaves a job PROCESSING does
\* not start from DELETED.
C35_CancelledStaysOut ==
    [][\A j \in JobIds :
          jobs[j].status = "DELETED" => jobs'[j].status # "PROCESSING"]_vars

FedOrCut(d) ==
    \E i \in 1..Len(d.wire) : d.wire[i] \in {"lf", "cut_full", "cut_partial"}

\* C37: the line feeds and the cut of a job go to the device only after
\* the raster command of that job went out.  In the file receiver the
\* driver still shows what print_image sent when the feed is made; in the
\* admin worker no feed is sent while the job's raster has not gone out.
C37_FeedAfterRaster ==
    /\ [][(service = "receiver" /\ rpc = "feed" /\ FedOrCut(drv'))
             => SentRaster(drv)]_vars
    /\ [](( service = "admin" /\ wpc = "feed" /\ ~wraster) =>
            \A cf \in ConnFaults, k \in 0..3 :
                ~FedOrCut(print_empty_lines(PrinterDriver, 3, cf, k).d))

\* C38: a set-default request naming an address that is not registered
\* answers 404 and leaves the registry as it was: the printer holding the
\* default flag before the request still holds it afterwards.
C38_UnknownDefaultKeepsRegistry ==
    [][\A h \in Handlers, ip \in Addresses :
          (SetDefault(h, ip) /\ aret'[h] = 404) => printers' = printers]_vars

\* C39: the receiver parses and enqueues the envelope of a connection only
\* if the marker was observed in the bytes of that connection; a stream
\* that ends without the marker enqueues nothing.
C39_EnqueueNeedsMarker ==
    (fpc = "done" /\ payload # <<>> /\ parsed = payload) => marked

\* C40: whenever a public operation of the driver has returned or raised,
\* the printer handle is None, and the operation that follows opens a
\* connection of its own before anything else goes out: no session is
\* carried from one operation to the next.
C40_NoSessionReuse ==
    /\ [](drv.printer = "None")
    /\ [][drv'.wire # <<>> => drv'.wire[1] = "open"]_vars

\* An operation that sent content has returned: it opened its connection,
\* closed it and left no handle.
C40_Witness ==
    /\ service = "driver" /\ drv.printer = "None" /\ SentBytes(drv)
    /\ drv.wire[1] = "open" /\ drv.wire[Len(drv.wire)] = "close"

====
